---- MODULE Spec2Model ----
(***************************************************************************)
(* A model of src/main.py, class HTTPDirectoryDownloader and main():       *)
(* the recursive crawl (process_directory / extract_links), the worker     *)
(* pool over file_queue (file_download_worker), the freshness decision     *)
(* (should_skip_existing, is_file_updated, is_file_changed), the transfer  *)
(* of one file (download_file), and the exit status derived by main().     *)
(*                                                                         *)
(* Strings (URLs, local paths) are sequences of tokens, so that string     *)
(* concatenation, endswith('/') and set membership of the raw string are   *)
(* what the code computes.  File contents are sequences of bytes: byte i   *)
(* of the remote file is the number i, a stale local byte is 0.            *)
(***************************************************************************)
EXTENDS Integers, Sequences, FiniteSets, TLC

VARIABLES
    cfg,            \* update_only, use_checksum, existing_action (fixed per run)
    env,            \* what the run meets: the listing pages, the remote size, the local UTC offset
    fs,             \* local files by canonical path: [exists, data, mtime]
    etag,           \* the '.etag' sidecar of each canonical path: "absent" or its text
    file_queue,     \* Queue(): the items put and not yet got (a task or None)
    unfinished,     \* Queue.unfinished_tasks: puts minus task_done calls
    stats,          \* downloaded_files, skipped_files, failed_files, total_files
    processed_urls, \* the set of raw URL strings process_directory has seen
    stack,          \* the frames of process_directory in progress (innermost last)
    call,           \* the process_directory call about to be entered, or <<>>
    main,           \* the main thread: its position, the exit status, the number of the run
    wk,             \* each worker thread: position, task, locals of download_file
    reqs,           \* HEAD and GET requests issued so far
    outcomes,       \* how the tasks really ended (observation only)
    visits,         \* per URL string: invocations, listings fetched, tasks put
    baks            \* the backup copies of each canonical path: pairs <<k, data>>

vars == <<cfg, env, fs, etag, file_queue, unfinished, stats, processed_urls,
          stack, call, main, wk, reqs, outcomes, visits, baks>>

----------------------------------------------------------------------------
(* Bounds of the model *)

NumWorkers == 2
MaxSize == 2
MaxTime == 2
MaxDepth == 3
MaxRuns == 2

Workers == 1..NumWorkers

----------------------------------------------------------------------------
(* Strings as token sequences *)

Last(s) == s[Len(s)]

EndsWithSlash(s) == Len(s) > 0 /\ Last(s) = "/"

\* str.strip() of the sidecar's text
RECURSIVE LStrip(_)
LStrip(s) == IF Len(s) > 0 /\ Head(s) = " " THEN LStrip(Tail(s)) ELSE s

RECURSIVE RStrip(_)
RStrip(s) == IF Len(s) > 0 /\ Last(s) = " " THEN RStrip(SubSeq(s, 1, Len(s) - 1)) ELSE s

Strip(s) == RStrip(LStrip(s))

----------------------------------------------------------------------------
(* Values *)

\* Entity tags as the HTTP client hands them over: not empty, no blank at either end
Tags == {<<"x">>, <<"y">>}

\* the text of a '.etag' sidecar: absent, or what open(etag_file,'w') / f.write(remote_etag) can leave
NoRecord == [exists |-> FALSE, text |-> <<>>]
Records == {NoRecord} \cup {[exists |-> TRUE, text |-> t] : t \in Tags \cup {<<>>}}

\* the remote file of S bytes, and a stale local file of k bytes
RemoteData(S) == [i \in 1..S |-> i]
StaleData(k) == [i \in 1..k |-> 0]

NoFile == [exists |-> FALSE, data |-> <<>>, mtime |-> 0]
File(d, t) == [exists |-> TRUE, data |-> d, mtime |-> t]

\* os.path.getsize
getsize(f) == Len(f.data)

\* the moment a file is written in this run: later than every earlier mtime
Now == MaxTime

----------------------------------------------------------------------------
(* Freshness Evaluator: lines 141-266 *)

\* a HEAD response as the code reads it
NoHead == [kind |-> "none", etag |-> <<>>, md5 |-> "none", lm |-> "none", t |-> 0]

\* responses to the HEAD of is_file_changed: an error, or the ETag / Content-MD5 headers
ChangeProbes ==
    {[NoHead EXCEPT !.kind = "fail"]}
    \cup {[NoHead EXCEPT !.kind = "headers", !.etag = e, !.md5 = m] :
             e \in Tags \cup {<<>>}, m \in {"none", "valid", "malformed"}}

\* responses to the HEAD of is_file_updated: an error, or the Last-Modified header:
\* absent, unparsable, an HTTP-date ("GMT"), or a date with zone "-0000"
UpdateProbes ==
    {[NoHead EXCEPT !.kind = "fail"]}
    \cup {[NoHead EXCEPT !.kind = "headers", !.lm = z] : z \in {"none", "malformed"}}
    \cup {[NoHead EXCEPT !.kind = "headers", !.lm = z, !.t = t] :
             z \in {"GMT", "-0000"}, t \in 0..MaxTime}

HeadResponses == ChangeProbes \cup UpdateProbes

\* email.utils.parsedate_to_datetime: aware unless the zone is "-0000"; raises on garbage
parsedate_to_datetime(head) ==
    [raised |-> head.lm = "malformed", t |-> head.t, aware |-> head.lm = "GMT"]

\* datetime.fromtimestamp(mtime): the naive local wall-clock time
fromtimestamp(mtime, tz) == [raised |-> FALSE, t |-> mtime + tz, aware |-> FALSE]

\* is_file_updated, lines 141-163: TRUE = the remote is newer
is_file_updated(head, file, tz) ==
    IF head.kind = "fail" THEN TRUE
    ELSE IF head.lm = "none" THEN TRUE
    ELSE LET remote_time == parsedate_to_datetime(head)
             local_time == fromtimestamp(file.mtime, tz)
         IN  IF remote_time.raised THEN TRUE
             \* aware - naive: TypeError, caught by 'except Exception'
             ELSE IF remote_time.aware # local_time.aware THEN TRUE
             ELSE remote_time.t - local_time.t > 1

\* get_file_checksum, lines 165-175: a SHA-256 digest
get_file_checksum(file) == <<"sha256", file.data>>

\* is_file_changed without lines 198-200: the new tag is not saved
is_file_changed_no_save(head, file, rec, S) ==
    IF head.kind = "headers" /\ head.etag # <<>>
    THEN [changed |-> ~(rec.exists /\ Strip(rec.text) # <<>> /\ Strip(rec.text) = head.etag),
          rec |-> rec]
    ELSE [changed |-> TRUE, rec |-> rec]

\* is_file_changed, lines 177-220: [changed, rec: the sidecar afterwards]
is_file_changed(head, file, rec, S) ==
    IF head.kind = "fail" THEN [changed |-> TRUE, rec |-> rec]
    ELSE IF head.etag # <<>> THEN
        LET local_etag == IF rec.exists THEN Strip(rec.text) ELSE <<>>
        IN  IF local_etag # <<>> /\ local_etag = head.etag
            THEN [changed |-> FALSE, rec |-> rec]
            ELSE [changed |-> TRUE, rec |-> [exists |-> TRUE, text |-> head.etag]]
    ELSE IF head.md5 # "none" THEN
        \* base64.b64decode raises on a malformed header; else an MD5 digest is
        \* compared with the local SHA-256 digest
        IF head.md5 = "malformed" THEN [changed |-> TRUE, rec |-> rec]
        ELSE [changed |-> get_file_checksum(file) # <<"md5", RemoteData(S)>>, rec |-> rec]
    ELSE [changed |-> TRUE, rec |-> rec]

\* backup_file, lines 222-236: the backups of one file are pairs <<k, data>>,
\* k = 0 for '<file>.bak' and k for '<file>.bak.k'
RECURSIVE FirstFree(_, _)
FirstFree(bk, k) == IF \E b \in bk : b[1] = k THEN FirstFree(bk, k + 1) ELSE k

\* backup_file that always copies to '<file>.bak'
backup_file_overwrites(file, bk, copy_ok) ==
    IF copy_ok THEN {b \in bk : b[1] # 0} \cup {<<0, file.data>>} ELSE bk

backup_file(file, bk, copy_ok) ==
    IF copy_ok THEN bk \cup {<<FirstFree(bk, 0), file.data>>} ELSE bk

\* should_skip_existing with the freshness checks of lines 253-264 moved before
\* the 'skip' policy of lines 249-251
should_skip_existing_probe_first(c, file, rec, bk, head, copy_ok, tz, S) ==
    LET keep == [skip |-> FALSE, rec |-> rec, bk |-> bk, probed |-> FALSE]
    IN  IF ~file.exists THEN keep
        ELSE IF c.existing_action = "backup"
            THEN [keep EXCEPT !.bk = backup_file(file, bk, copy_ok)]
        ELSE IF c.use_checksum
            THEN LET r == is_file_changed(head, file, rec, S)
                 IN  [skip |-> ~r.changed \/ c.existing_action = "skip", rec |-> r.rec,
                      bk |-> bk, probed |-> TRUE]
        ELSE IF c.update_only
            THEN [keep EXCEPT !.skip = ~is_file_updated(head, file, tz)
                                          \/ c.existing_action = "skip",
                              !.probed = TRUE]
        ELSE [keep EXCEPT !.skip = c.existing_action = "skip"]

\* should_skip_existing, lines 238-266:
\* [skip, rec, bk, probed: a HEAD was issued]
should_skip_existing(c, file, rec, bk, head, copy_ok, tz, S) ==
    LET keep == [skip |-> FALSE, rec |-> rec, bk |-> bk, probed |-> FALSE]
    IN  IF ~file.exists THEN keep
        ELSE IF c.existing_action = "backup"
            THEN [keep EXCEPT !.bk = backup_file(file, bk, copy_ok)]
        ELSE IF c.existing_action = "skip" THEN [keep EXCEPT !.skip = TRUE]
        ELSE IF c.update_only \/ c.use_checksum THEN
            IF c.use_checksum
            THEN LET r == is_file_changed(head, file, rec, S)
                 IN  [skip |-> ~r.changed, rec |-> r.rec, bk |-> bk, probed |-> TRUE]
            ELSE [keep EXCEPT !.skip = ~is_file_updated(head, file, tz), !.probed = TRUE]
        ELSE keep

----------------------------------------------------------------------------
(* Transfer Engine: download_file, lines 276-334 *)

\* What the server and the disk do to one GET (session.get(..., stream=True)):
\*   kind "error":   the request raises a RequestException (no connection, timeout)
\*   kind "full":    the server ignores any Range header: 200 and the whole file
\*   kind "range":   the server honours the Range header sent: 206 and the rest,
\*                   or 416 when the offset is not inside the file
\*   kind "oserror": os.makedirs or open raises OSError
\*   declared:       the response carries Content-Length
\*   sent, stop:     the body ends after `sent` bytes: at its end ("eof"), by a
\*                   RequestException in iter_content ("reset"), or silently ("short")
NoGet == [kind |-> "none", declared |-> FALSE, sent |-> 0, stop |-> "eof"]

status_code(beh, offset, S) ==
    IF beh.kind = "full" \/ offset = 0 THEN 200
    ELSE IF offset < S THEN 206
    ELSE 416

body(beh, offset, S) ==
    LET st == status_code(beh, offset, S)
    IN  IF st = 200 THEN RemoteData(S)
        ELSE IF st = 206 THEN SubSeq(RemoteData(S), offset + 1, S)
        ELSE <<>>

GetBehaviours(offset, S) ==
    {[NoGet EXCEPT !.kind = k] : k \in {"error", "oserror"}}
    \cup {b \in [kind : {"full", "range"}, declared : BOOLEAN, sent : 0..MaxSize,
                 stop : {"eof", "reset", "short"}] :
            LET n == Len(body(b, offset, S))
            IN  IF b.kind = "range" /\ offset = 0 THEN FALSE
                ELSE IF status_code(b, offset, S) = 416
                THEN b.sent = 0 /\ b.stop = "eof" /\ ~b.declared
                ELSE /\ b.sent <= n
                     /\ (b.stop = "eof") = (b.sent = n)
                     /\ b.stop = "short" => b.declared}

\* lines 281-286: the offset to resume from (0: no Range header)
resume_offset(file) == IF file.exists /\ getsize(file) > 0 THEN getsize(file) ELSE 0

\* open_mode that never appends
open_mode_always_wb(resume, status) == "wb"

\* lines 293-300: the mode the local file is opened in
open_mode(resume, status) == IF resume /\ status = 206 THEN "ab" ELSE "wb"

\* lines 302-307: the size the file is expected to have afterwards (0: unknown)
total_size(declared, content_length, file_size) ==
    IF declared THEN content_length + file_size ELSE 0

\* lines 329-334: the RequestException handler: [file, res]
on_request_exception(file) ==
    [file |-> IF file.exists /\ getsize(file) = 0 THEN NoFile ELSE file,
     res |-> "transport"]

\* lines 320-327: the size check after the write: the outcome
verify_size(total, actual_size) ==
    IF total > 0 /\ actual_size # total THEN "mismatch" ELSE "ok"

\* lines 288-334: [file: the local file afterwards,
\*                 res: "ok" (True), "mismatch" or "transport" (False), "raised" (an
\*                      exception that is no RequestException leaves download_file),
\*                 status: the status code of a response that passed
\*                      raise_for_status, else 0]
transfer(file, file_size, beh, S) ==
    LET resume == file_size > 0
        st == status_code(beh, file_size, S)
        bd == body(beh, file_size, S)
        mode == open_mode(resume, st)
        total == total_size(beh.declared, Len(bd), file_size)
        written == [exists |-> TRUE,
                    data |-> (IF mode = "ab" THEN file.data ELSE <<>>)
                                \o SubSeq(bd, 1, beh.sent),
                    mtime |-> Now]
    IN  IF beh.kind = "oserror" THEN [file |-> file, res |-> "raised", status |-> 0]
        ELSE IF beh.kind = "error" \/ st = 416
            THEN on_request_exception(file) @@ [status |-> 0]
        ELSE IF beh.stop = "reset" THEN on_request_exception(written) @@ [status |-> st]
        ELSE [file |-> written, res |-> verify_size(total, getsize(written)),
              status |-> st]

----------------------------------------------------------------------------
(* Work Dispatcher and Run Controller: the pure parts *)

\* count_result that counts every task as downloaded, and a failure as failed too
count_result_unconditional(st, success) ==
    IF success THEN [st EXCEPT !.downloaded_files = @ + 1]
    ELSE [st EXCEPT !.downloaded_files = @ + 1, !.failed_files = @ + 1]

\* lines 346-350: the worker's count of download_file's return value
count_result(st, success) ==
    IF success THEN [st EXCEPT !.downloaded_files = @ + 1]
    ELSE [st EXCEPT !.failed_files = @ + 1]

\* lines 453 and 513-522: the exit status of main()
exit_status(st) ==
    LET success == st.downloaded_files > 0
    IN  IF ~success /\ st.downloaded_files = 0 THEN 1
        ELSE IF st.failed_files > 0 THEN 2
        ELSE 0

----------------------------------------------------------------------------
(* Link Extractor and the remote site *)

\* urllib.parse.unquote on one token of an href
unquote_token(tok) == IF tok = "%61" THEN "a" ELSE tok

unquote(href) == [i \in 1..Len(href) |-> unquote_token(href[i])]

\* the anchors of a node's autoindex page, in page order (hrefs as token sequences)
Page(site, node) ==
    IF site = "plain" THEN
        IF node = "root" THEN << <<"?", "C=N">>, <<"..", "/">>, <<"a">>, <<"s", "/">> >>
        ELSE << <<"..", "/">>, <<"b">> >>
    ELSE IF site = "dup" THEN
        IF node = "root" THEN << <<"..", "/">>, <<"s", "/">>, <<"s", "/">> >>
        ELSE << <<"#", "top">>, <<"b">>, <<"b">> >>
    ELSE IF site = "loop" THEN
        IF node = "root" THEN << <<"..", "/">>, <<".", "/">> >> ELSE << >>
    ELSE \* site "one": a single file
        IF node = "root" THEN << <<"..", "/">>, <<"a">> >> ELSE << >>

\* the directory a URL names on the server ("none": 404)
RECURSIVE Walk(_, _)
Walk(node, segs) ==
    IF segs = <<>> \/ node = "none" THEN node
    ELSE LET x == Head(segs)
             next == IF x = "/" \/ x = "." THEN node
                     ELSE IF node = "root" /\ x = "s" THEN "s"
                     ELSE "none"
         IN  Walk(next, Tail(segs))

Resolve(url) == IF Len(url) > 0 /\ Head(url) = "r" THEN Walk("root", Tail(url)) ELSE "none"

\* lines 114-132: the loop over the anchors
RECURSIVE classify(_, _)
classify(hrefs, acc) ==
    IF hrefs = <<>> THEN acc
    ELSE LET href == Head(hrefs)
             decoded_href == unquote(href)
             rest == Tail(hrefs)
         IN  IF href = <<>> \/ Head(href) = "?" \/ Head(href) = "#" THEN classify(rest, acc)
             ELSE IF decoded_href = <<"..", "/">> \/ decoded_href = <<"..">> THEN classify(rest, acc)
             ELSE IF EndsWithSlash(decoded_href)
                 THEN classify(rest, [acc EXCEPT !.directories = Append(@, decoded_href)])
             ELSE classify(rest, [acc EXCEPT !.files = Append(@, decoded_href)])

NoLinks == [files |-> <<>>, directories |-> <<>>]

\* extract_links, lines 96-139; got: "html", or "error" (RequestException,
\* a 404 included), or "nothtml" (another Content-Type)
extract_links(site, url, got) ==
    IF got # "html" \/ Resolve(url) = "none" THEN NoLinks
    ELSE classify(Page(site, Resolve(url)), NoLinks)

\* get_absolute_url, lines 92-94: urljoin(base_url, url) of a URL that is already
\* absolute returns it as it is
get_absolute_url(url) == url

\* os.path.join(a, b)
path_join(a, b) ==
    IF Len(b) > 0 /\ Head(b) = "/" THEN b
    ELSE IF a = <<>> \/ EndsWithSlash(a) THEN a \o b
    ELSE a \o <<"/">> \o b

\* the file a local path names: '/' and '.' are no path components
RECURSIVE Canon(_)
Canon(lp) ==
    IF lp = <<>> THEN <<>>
    ELSE IF Head(lp) = "/" \/ Head(lp) = "." THEN Canon(Tail(lp))
    ELSE <<Head(lp)>> \o Canon(Tail(lp))

Paths == {<<"r", "a">>, <<"r", "s", "b">>}

\* the local files a site's tasks name
SitePaths(site) ==
    IF site = "plain" THEN Paths
    ELSE IF site = "dup" THEN {<<"r", "s", "b">>}
    ELSE IF site = "loop" THEN {}
    ELSE {<<"r", "a">>}

\* the start URL as given (line 45), and the root local folder (lines 410-414)
base_url(slash) == IF slash THEN <<"r", "/">> ELSE <<"r">>
root_local_path == <<"r">>

----------------------------------------------------------------------------
(* Crawl Coordinator: process_directory, lines 354-386 *)

NoCall == [active |-> FALSE, url |-> <<>>, lp |-> <<>>]
None == [url |-> <<>>, lp |-> <<>>]

Top == stack[Len(stack)]
SetTop(f) == [stack EXCEPT ![Len(stack)] = f]

Visit(u) == IF u \in DOMAIN visits THEN visits[u] ELSE [calls |-> 0, fetches |-> 0, puts |-> 0]

\* line 357
already_processed(url, seen) == url \in seen

\* line 359 left out
mark_processed_forgets(url, seen) == seen

\* line 359
mark_processed(url, seen) == seen \cup {url}

\* lines 361-363
with_slash(url) == IF ~EndsWithSlash(url) THEN url \o <<"/">> ELSE url

\* lines 357-369: the call is entered: it returns at once for a URL seen before,
\* else marks it, fetches the listing and starts on its links
PD_Enter ==
    /\ main.pc = "crawl"
    /\ call.active
    /\ Len(stack) < MaxDepth
    /\ \E got \in {"html", "error", "nothtml"} :
        LET url == call.url
            seen == already_processed(url, processed_urls)
            links == extract_links(env.site, with_slash(url), got)
            v == Visit(url)
        IN  /\ processed_urls' = IF seen THEN processed_urls
                                 ELSE mark_processed(url, processed_urls)
            /\ stack' = IF seen THEN stack
                        ELSE Append(stack, [raw |-> url, url |-> with_slash(url),
                                            lp |-> call.lp, files |-> links.files,
                                            directories |-> links.directories])
            /\ visits' = (url :> [v EXCEPT !.calls = @ + 1,
                                           !.fetches = IF seen THEN @ ELSE @ + 1]) @@ visits
    /\ call' = NoCall
    /\ UNCHANGED <<cfg, env, fs, etag, baks, file_queue, unfinished, stats, main, wk,
                   reqs, outcomes>>

\* line 386 at the interpreter's recursion limit (MaxDepth frames): the call
\* raises RecursionError, which nothing catches: start() and main() are left
\* with a traceback (exit status 1) and the daemon threads end with the process
PD_Overflow ==
    /\ main.pc = "crawl"
    /\ call.active
    /\ Len(stack) >= MaxDepth
    /\ main' = [main EXCEPT !.pc = "crashed", !.exit = 1]
    /\ call' = NoCall
    /\ stack' = <<>>
    /\ UNCHANGED <<cfg, env, fs, etag, baks, file_queue, unfinished, stats, processed_urls,
                   wk, reqs, outcomes, visits>>

\* lines 372-380: one file of the listing becomes a task
PD_File ==
    /\ main.pc = "crawl"
    /\ ~call.active
    /\ stack # <<>>
    /\ Top.files # <<>>
    /\ LET file == Head(Top.files)
           file_url == get_absolute_url(Top.url \o file)
           file_local_path == path_join(Top.lp, file)
           v == Visit(Top.raw)
       IN  /\ stats' = [stats EXCEPT !.total_files = @ + 1]
           /\ file_queue' = Append(file_queue, [url |-> file_url, lp |-> file_local_path])
           /\ unfinished' = unfinished + 1
           /\ stack' = SetTop([Top EXCEPT !.files = Tail(@)])
           /\ visits' = (Top.raw :> [v EXCEPT !.puts = @ + 1]) @@ visits
    /\ UNCHANGED <<cfg, env, fs, etag, baks, processed_urls, call, main, wk, reqs, outcomes>>

\* lines 383-386: the recursive call for one subdirectory
PD_Dir ==
    /\ main.pc = "crawl"
    /\ ~call.active
    /\ stack # <<>>
    /\ Top.files = <<>>
    /\ Top.directories # <<>>
    /\ LET directory == Head(Top.directories)
       IN  /\ call' = [active |-> TRUE,
                       url |-> get_absolute_url(Top.url \o directory),
                       lp |-> path_join(Top.lp, directory)]
           /\ stack' = SetTop([Top EXCEPT !.directories = Tail(@)])
    /\ UNCHANGED <<cfg, env, fs, etag, baks, file_queue, unfinished, stats, processed_urls,
                   main, wk, reqs, outcomes, visits>>

\* the call returns
PD_Return ==
    /\ main.pc = "crawl"
    /\ ~call.active
    /\ stack # <<>>
    /\ Top.files = <<>>
    /\ Top.directories = <<>>
    /\ stack' = SubSeq(stack, 1, Len(stack) - 1)
    /\ UNCHANGED <<cfg, env, fs, etag, baks, file_queue, unfinished, stats, processed_urls,
                   call, main, wk, reqs, outcomes, visits>>

----------------------------------------------------------------------------
(* Run Controller: start(), lines 401-453, and main(), lines 511-522 *)

\* line 417 returns; line 420 (time.sleep) passes
M_CrawlDone ==
    /\ main.pc = "crawl"
    /\ ~call.active
    /\ stack = <<>>
    /\ main' = [main EXCEPT !.pc = "join"]
    /\ UNCHANGED <<cfg, env, fs, etag, baks, file_queue, unfinished, stats, processed_urls,
                   stack, call, wk, reqs, outcomes, visits>>

\* start() without the barrier of line 423
M_Join_no_barrier ==
    /\ main.pc = "join"
    /\ main' = [main EXCEPT !.pc = "stop"]
    /\ UNCHANGED <<cfg, env, fs, etag, baks, file_queue, unfinished, stats, processed_urls,
                   stack, call, wk, reqs, outcomes, visits>>

\* line 423: file_queue.join() returns once every put has had its task_done
M_Join ==
    /\ main.pc = "join"
    /\ unfinished = 0
    /\ main' = [main EXCEPT !.pc = "stop"]
    /\ UNCHANGED <<cfg, env, fs, etag, baks, file_queue, unfinished, stats, processed_urls,
                   stack, call, wk, reqs, outcomes, visits>>

\* lines 426-427: one None per worker
M_PutSentinel ==
    /\ main.pc = "stop"
    /\ main.sentinels < NumWorkers
    /\ file_queue' = Append(file_queue, None)
    /\ unfinished' = unfinished + 1
    /\ main' = [main EXCEPT !.sentinels = @ + 1]
    /\ UNCHANGED <<cfg, env, fs, etag, baks, stats, processed_urls, stack, call, wk, reqs,
                   outcomes, visits>>

\* lines 428-429 and 431-453, then main() lines 513-522
M_Exit ==
    /\ main.pc = "stop"
    /\ main.sentinels = NumWorkers
    /\ \A w \in Workers : wk[w].pc = "exit"
    /\ main' = [main EXCEPT !.pc = "done", !.exit = exit_status(stats)]
    /\ UNCHANGED <<cfg, env, fs, etag, baks, file_queue, unfinished, stats, processed_urls,
                   stack, call, wk, reqs, outcomes, visits>>

----------------------------------------------------------------------------
(* Work Dispatcher: file_download_worker, lines 336-352 *)

\* a worker between tasks. Of a task in hand it holds download_file's locals:
\* file_size, the HEAD response read (head), what answered the GET (served: the
\* kind of GetBehaviours), the status code and whether Content-Length was
\* declared, how the body ended (stop), and how download_file ended (res)
Idle == [pc |-> "get", task |-> None, file_size |-> 0, res |-> "none",
         head |-> NoHead, served |-> "none", status |-> 0, declared |-> FALSE,
         stop |-> "eof"]

\* the threads are daemons (line 405): they run while the process does
Running == main.pc # "crashed"

\* download_file's return value (lines 274, 324, 327, 334)
returns_true(res) == res \in {"ok", "skipped"}

\* lines 339-343: a blocking get; None ends the loop
W_Get(w) ==
    /\ Running
    /\ wk[w].pc = "get"
    /\ file_queue # <<>>
    /\ file_queue' = Tail(file_queue)
    /\ wk' = [wk EXCEPT ![w] = IF Head(file_queue) = None THEN [Idle EXCEPT !.pc = "exit"]
                                ELSE [Idle EXCEPT !.pc = "eval", !.task = Head(file_queue)]]
    /\ UNCHANGED <<cfg, env, fs, etag, baks, unfinished, stats, processed_urls, stack, call,
                   main, reqs, outcomes, visits>>

\* download_file, lines 270-286: the freshness decision; a skip is counted and
\* returns True; otherwise the resume offset is read from the local file
W_Evaluate(w) ==
    /\ Running
    /\ wk[w].pc = "eval"
    /\ \E head \in (IF cfg.use_checksum THEN ChangeProbes ELSE UpdateProbes),
          copy_ok \in BOOLEAN :
        LET p == Canon(wk[w].task.lp)
            r == should_skip_existing(cfg, fs[p], etag[p], baks[p], head, copy_ok,
                                      env.tz, env.size)
        IN  /\ etag' = [etag EXCEPT ![p] = r.rec]
            /\ baks' = [baks EXCEPT ![p] = r.bk]
            /\ reqs' = [reqs EXCEPT !.head = IF r.probed THEN @ + 1 ELSE @]
            /\ stats' = [stats EXCEPT !.skipped_files = IF r.skip THEN @ + 1 ELSE @]
            /\ outcomes' = [outcomes EXCEPT !.skipped = IF r.skip THEN @ + 1 ELSE @]
            /\ wk' = [wk EXCEPT ![w] =
                        [@ EXCEPT !.pc = IF r.skip THEN "count" ELSE "transfer",
                                  !.res = IF r.skip THEN "skipped" ELSE "none",
                                  !.head = IF r.probed THEN head ELSE NoHead,
                                  !.file_size = IF r.skip THEN 0 ELSE resume_offset(fs[p])]]
    /\ UNCHANGED <<cfg, env, fs, file_queue, unfinished, processed_urls, stack, call, main,
                   visits>>

\* download_file, lines 288-334: the GET, the write and the size check; an
\* exception that is no RequestException leaves download_file and the worker's
\* loop, which has no handler: the thread ends
W_Transfer(w) ==
    /\ Running
    /\ wk[w].pc = "transfer"
    /\ \E beh \in GetBehaviours(wk[w].file_size, env.size) :
        LET p == Canon(wk[w].task.lp)
            r == transfer(fs[p], wk[w].file_size, beh, env.size)
        IN  /\ fs' = [fs EXCEPT ![p] = r.file]
            /\ reqs' = [reqs EXCEPT !.get = IF beh.kind = "oserror" THEN @ ELSE @ + 1]
            /\ outcomes' = [outcomes EXCEPT
                              !.transferred = IF r.res = "ok" THEN @ + 1 ELSE @,
                              !.failed = IF r.res \in {"transport", "mismatch"} THEN @ + 1 ELSE @,
                              !.raised = IF r.res = "raised" THEN @ + 1 ELSE @]
            /\ wk' = [wk EXCEPT ![w] =
                        [@ EXCEPT !.pc = IF r.res = "raised" THEN "dead" ELSE "count",
                                  !.res = r.res, !.served = beh.kind, !.status = r.status,
                                  !.declared = r.res \in {"ok", "mismatch"} /\ beh.declared,
                                  !.stop = beh.stop]]
    /\ UNCHANGED <<cfg, env, etag, baks, file_queue, unfinished, stats, processed_urls,
                   stack, call, main, visits>>

\* lines 346-352: the result is counted under the lock, then task_done()
W_Count(w) ==
    /\ Running
    /\ wk[w].pc = "count"
    /\ stats' = count_result(stats, returns_true(wk[w].res))
    /\ unfinished' = unfinished - 1
    /\ wk' = [wk EXCEPT ![w] = Idle]
    /\ UNCHANGED <<cfg, env, fs, etag, baks, file_queue, processed_urls, stack, call, main,
                   reqs, outcomes, visits>>

----------------------------------------------------------------------------
(* Specifications *)

Policies == {"skip", "overwrite", "backup"}

Configs == [existing_action : Policies, update_only : BOOLEAN, use_checksum : BOOLEAN]

\* the local UTC offsets tried (seconds east of UTC)
TzOffsets == {0, 1}

\* a local file before the run: none, the first k bytes of the remote file
\* (a partial or a complete copy), or k stale bytes
LocalFiles(times) ==
    {NoFile}
    \cup {File(d, t) : d \in {RemoteData(k) : k \in 0..MaxSize}
                            \cup {StaleData(k) : k \in 1..MaxSize},
                       t \in times}

\* the backups earlier runs left beside a file: '.bak' and '.bak.1', each or none
OldBackups == SUBSET {<<0, StaleData(1)>>, <<1, StaleData(1)>>}

\* __init__, lines 45-64, and the threads of lines 402-407 started
InitRun ==
    /\ wk = [w \in Workers |-> Idle]
    /\ reqs = [head |-> 0, get |-> 0]
    /\ outcomes = [transferred |-> 0, skipped |-> 0, failed |-> 0, raised |-> 0]
    /\ stack = <<>>

NoStats == [downloaded_files |-> 0, skipped_files |-> 0, failed_files |-> 0,
            total_files |-> 0]

\* a whole run: the crawl of a site by start(), beside the workers
Init ==
    /\ InitRun
    /\ cfg \in {c \in Configs : ~c.update_only /\ ~c.use_checksum}
    /\ env \in [site : {"plain", "dup", "loop"}, slash : BOOLEAN, size : {1}, tz : {0}]
    /\ env.site \in {"dup", "loop"} => env.slash
    /\ fs \in [Paths -> {NoFile, File(RemoteData(1), 0)}]
    /\ \A p \in Paths \ SitePaths(env.site) : fs[p] = NoFile
    /\ etag = [p \in Paths |-> NoRecord]
    /\ baks = [p \in Paths |-> {}]
    /\ file_queue = <<>>
    /\ unfinished = 0
    /\ stats = NoStats
    /\ processed_urls = {}
    /\ visits = <<>>
    /\ call = [active |-> TRUE, url |-> base_url(env.slash), lp |-> root_local_path]
    /\ main = [pc |-> "crawl", sentinels |-> 0, exit |-> -1, run |-> 1]

Crawl == PD_Enter \/ PD_Overflow \/ PD_File \/ PD_Dir \/ PD_Return \/ M_CrawlDone

Work ==
    \/ M_Join \/ M_PutSentinel \/ M_Exit
    \/ \E w \in Workers : W_Get(w) \/ W_Evaluate(w) \/ W_Transfer(w) \/ W_Count(w)

Next == Crawl \/ Work

Spec == Init /\ [][Next]_vars

\* the scheduler lets every thread that can take a step take one: the main
\* thread (crawl, barrier, sentinels, joins) and each worker thread
Fairness ==
    /\ WF_vars(Crawl)
    /\ WF_vars(M_Join \/ M_PutSentinel \/ M_Exit)
    /\ \A w \in Workers : WF_vars(W_Get(w) \/ W_Evaluate(w) \/ W_Transfer(w) \/ W_Count(w))

FairSpec == Spec /\ Fairness

\* the configurations under which the code reads the local mtime (line 155),
\* and the sidecar (lines 189-192): the others are run with one value of each
ReadsTime(c) == c.existing_action = "overwrite" /\ c.update_only /\ ~c.use_checksum
ReadsRecord(c) == c.existing_action = "overwrite" /\ c.use_checksum

\* the task of the only file of site "one" (lines 373-374)
OneTask == [url |-> <<"r", "/", "a">>, lp |-> <<"r", "/", "a">>]

\* download_file on one file, under every configuration, local state and
\* response: the run of a site that lists one file, taken up where the crawl
\* has put its only task
InitFile ==
    /\ InitRun
    /\ cfg \in Configs
    /\ env \in [site : {"one"}, slash : {TRUE}, size : 0..MaxSize,
                tz : IF ReadsTime(cfg) THEN TzOffsets ELSE {0}]
    /\ fs \in [Paths -> LocalFiles(IF ReadsTime(cfg) THEN 0..MaxTime ELSE {0})]
    /\ \A p \in Paths \ SitePaths(env.site) : fs[p] = NoFile
    /\ etag \in [Paths -> IF ReadsRecord(cfg) THEN Records ELSE {NoRecord}]
    /\ \A p \in Paths \ SitePaths(env.site) : etag[p] = NoRecord
    /\ baks \in [Paths -> IF cfg.existing_action = "backup" THEN OldBackups ELSE {{}}]
    /\ \A p \in Paths \ SitePaths(env.site) : baks[p] = {}
    /\ file_queue = <<OneTask>>
    /\ unfinished = 1
    /\ stats = [NoStats EXCEPT !.total_files = 1]
    /\ processed_urls = {base_url(TRUE)}
    /\ visits = (base_url(TRUE) :> [calls |-> 1, fetches |-> 1, puts |-> 1])
    /\ call = NoCall
    /\ main = [pc |-> "join", sentinels |-> 0, exit |-> -1, run |-> 1]

WorkFile == \E w \in Workers : W_Get(w) \/ W_Evaluate(w) \/ W_Transfer(w) \/ W_Count(w)

SpecFile == InitFile /\ [][WorkFile]_vars

\* The tool run again and again on one file (retries are re-runs of the whole
\* tool): the first run meets no local file or a stale one and no sidecar; each
\* later run is a new process with the same configuration, which meets the
\* files the earlier runs left and puts the same task
InitRuns ==
    /\ InitRun
    /\ cfg \in {c \in Configs : ~c.update_only}
    /\ env \in [site : {"one"}, slash : {TRUE}, size : {MaxSize}, tz : {0}]
    /\ fs \in [Paths -> {NoFile, File(StaleData(1), 0)}]
    /\ \A p \in Paths \ SitePaths(env.site) : fs[p] = NoFile
    /\ etag = [p \in Paths |-> NoRecord]
    /\ baks = [p \in Paths |-> {}]
    /\ file_queue = <<OneTask>>
    /\ unfinished = 1
    /\ stats = [NoStats EXCEPT !.total_files = 1]
    /\ processed_urls = {base_url(TRUE)}
    /\ visits = (base_url(TRUE) :> [calls |-> 1, fetches |-> 1, puts |-> 1])
    /\ call = NoCall
    /\ main = [pc |-> "join", sentinels |-> 0, exit |-> -1, run |-> 1]

\* the run is over (the barrier of line 423 is passed, the process exits) and
\* the tool is started again: new counters (lines 57-60), the same task put
NextRun ==
    /\ main.pc = "join"
    /\ unfinished = 0
    /\ file_queue = <<>>
    /\ \A w \in Workers : wk[w].pc = "get"
    /\ main.run < MaxRuns
    /\ main' = [main EXCEPT !.run = @ + 1]
    /\ file_queue' = <<OneTask>>
    /\ unfinished' = 1
    /\ stats' = [NoStats EXCEPT !.total_files = 1]
    /\ UNCHANGED <<cfg, env, fs, etag, baks, processed_urls, stack, call, wk, reqs,
                   outcomes, visits>>

WorkRuns == WorkFile \/ NextRun

SpecRuns == InitRuns /\ [][WorkRuns]_vars

----------------------------------------------------------------------------
(* Claims *)

\* the local file of the task worker w holds
PathOf(w) == Canon(wk[w].task.lp)

\* worker w takes the step of W_Evaluate, of W_Transfer, of W_Count
Evaluates(w) == wk[w].pc = "eval" /\ wk'[w].pc # "eval"
Transfers(w) == wk[w].pc = "transfer" /\ wk'[w].pc # "transfer"
Counts(w) == wk[w].pc = "count" /\ wk'[w].pc # "count"

\* C1: when download_file starts with a local file of N > 0 bytes and the server
\* answers the range request with a full (200) response that declares
\* Content-Length S and delivers the S bytes, the local file is rewritten from
\* offset 0 to the S bytes of the remote file, the size check passes and
\* download_file reports success.
C1_UnhonouredRangeRewrites ==
    \A w \in Workers :
        (/\ wk[w].pc = "count"
         /\ wk[w].file_size > 0
         /\ wk[w].status = 200
         /\ wk[w].declared
         /\ wk[w].stop = "eof")
        => /\ fs[PathOf(w)].data = RemoteData(env.size)
           /\ getsize(fs[PathOf(w)]) = env.size
           /\ wk[w].res = "ok"

\* C2: when download_file starts with a partial local file of N bytes, 0 < N < S,
\* and the server answers 'bytes=N-' with 206 and the remaining S-N bytes, these
\* are appended after the N bytes there, the file ends S bytes long, and
\* download_file reports success.
C2_HonouredRangeAppends ==
    [][\A w \in Workers :
        (Transfers(w) /\ wk'[w].status = 206 /\ wk'[w].stop = "eof")
        => LET N == wk[w].file_size
               S == env.size
               p == PathOf(w)
           IN  /\ 0 < N /\ N < S
               /\ fs'[p].data = fs[p].data \o SubSeq(RemoteData(S), N + 1, S)
               /\ getsize(fs'[p]) = S
               /\ wk'[w].res = "ok"
               /\ wk'[w].pc = "count"]_vars

C2_Witness ==
    \E w \in Workers :
        /\ wk[w].pc = "count" /\ wk[w].status = 206 /\ wk[w].stop = "eof"
        /\ wk[w].file_size = 1 /\ wk[w].res = "ok"
        /\ fs[PathOf(w)].data = RemoteData(MaxSize)

\* C3: the process exits 0 exactly when at least one file was really transferred
\* and no task failed; it exits 1 whenever no file was transferred; it exits 2
\* whenever a transfer succeeded and a task failed. A skipped task is no
\* successful download.
C3_ExitStatus ==
    main.pc = "done" =>
        /\ (main.exit = 0) = (outcomes.transferred >= 1 /\ outcomes.failed = 0)
        /\ outcomes.transferred = 0 => main.exit = 1
        /\ (outcomes.transferred >= 1 /\ outcomes.failed >= 1) => main.exit = 2

\* C4: a task that raises a filesystem error (or any other exception that is no
\* transport error) does not end its worker thread: the task is handed on to be
\* counted as failed, and is in the failed counter when the run is over.
C4_WorkerSurvives ==
    /\ \A w \in Workers : wk[w].pc # "dead"
    /\ \A w \in Workers : wk[w].res = "raised" => wk[w].pc = "count"
    /\ main.pc = "done" => stats.failed_files >= outcomes.raised

\* C5: for any URL string u, however often process_directory(u, ...) is invoked
\* in a run, the listing is fetched at most once and the tasks of its files are
\* put at most once; an invocation for a URL seen before returns without putting
\* anything or changing any counter.
C5_VisitOnce ==
    /\ [](\A u \in DOMAIN visits :
            /\ visits[u].fetches <= 1
            /\ visits[u].puts <= Len(extract_links(env.site, with_slash(u), "html").files))
    /\ [][(call.active /\ ~call'.active /\ call.url \in processed_urls)
          => /\ file_queue' = file_queue /\ unfinished' = unfinished
             /\ stats' = stats /\ stack' = stack
             /\ processed_urls' = processed_urls]_vars

C5_Witness ==
    \E u \in DOMAIN visits :
        /\ visits[u].calls = 2 /\ visits[u].fetches = 1 /\ visits[u].puts = 2
        /\ main.pc = "join"

C7_OverwriteOverwrites ==
    [][\A w \in Workers :
        (/\ Transfers(w)
         /\ cfg.existing_action = "overwrite" /\ ~cfg.update_only /\ ~cfg.use_checksum
         /\ fs[PathOf(w)].exists
         /\ fs[PathOf(w)].data \in {RemoteData(env.size)} \cup {StaleData(k) : k \in 1..MaxSize}
         /\ getsize(fs[PathOf(w)]) > 0
         /\ wk'[w].served = "range" /\ wk'[w].stop = "eof")
        => /\ fs'[PathOf(w)].data = RemoteData(env.size)
           /\ wk'[w].res = "ok"]_vars

\* C8: with policy 'skip', for a task whose local file exists (of any size,
\* whatever the flags and the remote), the decision issues no HEAD, the task no
\* GET, the local files stay as they are, and the task is recorded as skipped.
C8_SkipLaw ==
    [][\A w \in Workers :
        /\ (Evaluates(w) /\ cfg.existing_action = "skip" /\ fs[PathOf(w)].exists)
           => /\ reqs' = reqs
              /\ fs' = fs /\ etag' = etag /\ baks' = baks
              /\ stats' = [stats EXCEPT !.skipped_files = @ + 1]
              /\ wk'[w].pc = "count" /\ wk'[w].res = "skipped"
        /\ (Counts(w) /\ wk[w].res = "skipped")
           => /\ reqs' = reqs /\ fs' = fs
              /\ wk'[w].pc = "get"]_vars

C8_Witness ==
    \E w \in Workers :
        /\ wk[w].pc = "count" /\ wk[w].res = "skipped"
        /\ cfg.existing_action = "skip" /\ cfg.update_only /\ cfg.use_checksum
        /\ fs[PathOf(w)] = File(<<>>, 0)
        /\ reqs = [head |-> 0, get |-> 0]

\* C9: with policy 'overwrite' and change-by-content, for an existing local file
\* and a probe that returns entity tag T: if the sidecar holds T the decision is
\* to skip and the sidecar stays as it is; if there is no sidecar or it holds
\* something else the decision is to proceed and the sidecar then holds T.
C9_EntityTagLaw ==
    [][\A w \in Workers :
        (/\ Evaluates(w)
         /\ cfg.existing_action = "overwrite" /\ cfg.use_checksum
         /\ fs[PathOf(w)].exists
         /\ wk'[w].head.kind = "headers" /\ wk'[w].head.etag # <<>>)
        => LET T == wk'[w].head.etag
               p == PathOf(w)
           IN  IF etag[p].exists /\ etag[p].text = T
               THEN /\ wk'[w].res = "skipped" /\ wk'[w].pc = "count"
                    /\ etag' = etag
               ELSE /\ wk'[w].pc = "transfer"
                    /\ etag'[p] = [exists |-> TRUE, text |-> T]]_vars

C9_Witness ==
    \E w \in Workers :
        /\ wk[w].pc = "transfer"
        /\ cfg.existing_action = "overwrite" /\ cfg.use_checksum
        /\ wk[w].head.etag = <<"y">>
        /\ etag[PathOf(w)] = [exists |-> TRUE, text |-> <<"y">>]

\* C10: with policy 'overwrite', update-by-timestamp and no change-by-content,
\* for an existing local file modified at L and a probe returning the HTTP-date
\* R as Last-Modified: the decision is to skip when R <= L + 1 and to proceed
\* when R > L + 1; with no Last-Modified or a failed probe it is to proceed.
C10_TimestampLaw ==
    [][\A w \in Workers :
        (/\ Evaluates(w)
         /\ cfg.existing_action = "overwrite" /\ cfg.update_only /\ ~cfg.use_checksum
         /\ fs[PathOf(w)].exists)
        => LET h == wk'[w].head
               L == fs[PathOf(w)].mtime
               skipped == wk'[w].res = "skipped" /\ wk'[w].pc = "count"
               proceeds == wk'[w].pc = "transfer"
           IN  /\ h.kind # "none"
               /\ (h.kind = "headers" /\ h.lm = "GMT" /\ h.t <= L + 1) => skipped
               /\ (h.kind = "headers" /\ h.lm = "GMT" /\ h.t > L + 1) => proceeds
               /\ (h.kind = "fail" \/ h.lm = "none") => proceeds]_vars

\* C11: with policy 'backup' and an existing local file, the decision copies
\* the file to the first of '.bak', '.bak.1', '.bak.2', ... that does not exist
\* and leaves every backup already there as it is (in particular to '.bak.1'
\* when '.bak' exists and '.bak.1' does not); when the copy fails no backup
\* changes; either way the task goes on to the transfer.
C11_BackupNonCollision ==
    [][\A w \in Workers :
        (Evaluates(w) /\ cfg.existing_action = "backup" /\ fs[PathOf(w)].exists)
        => LET p == PathOf(w)
               used == {b[1] : b \in baks[p]}
               new == baks'[p] \ baks[p]
           IN  /\ baks[p] \subseteq baks'[p]
               /\ \A b \in new :
                    /\ new = {b}
                    /\ b[2] = fs[p].data
                    /\ b[1] \notin used
                    /\ \A j \in 0..(b[1] - 1) : j \in used
               /\ (0 \in used /\ 1 \notin used /\ new # {}) => \E b \in new : b[1] = 1
               /\ \A q \in Paths \ {p} : baks'[q] = baks[q]
               /\ fs' = fs
               /\ wk'[w].pc = "transfer" /\ wk'[w].res = "none"
               /\ stats' = stats]_vars

C11_Witness ==
    \E w \in Workers :
        /\ wk[w].pc = "transfer" /\ cfg.existing_action = "backup"
        /\ baks[PathOf(w)] = {<<0, StaleData(1)>>, <<1, RemoteData(2)>>}
        /\ fs[PathOf(w)].data = RemoteData(2)

\* C12: every task a worker has taken adds one to exactly one of the counters
\* downloaded, skipped, failed: their sum never exceeds the number of tasks
\* put (total_files), and equals it when start() has returned.
C12_CounterAccounting ==
    LET counted == stats.downloaded_files + stats.skipped_files + stats.failed_files
    IN  /\ counted <= stats.total_files
        /\ main.pc = "done" => counted = stats.total_files

\* C13: a termination sentinel is put only when the crawl has returned, no task
\* is left in the queue and no worker holds a task; at most one sentinel per
\* worker is put, none is lost and no worker takes two; a worker that has left
\* its loop leaves no task behind in the queue; and when start() has returned
\* there was one sentinel per worker, every worker has taken one and exited,
\* and the queue is empty.
C13_ShutdownOrdering ==
    LET items == {file_queue[i] : i \in 1..Len(file_queue)}
        exited == {w \in Workers : wk[w].pc = "exit"}
    IN  /\ main.sentinels <= NumWorkers
        /\ main.sentinels > 0 =>
            /\ main.pc \in {"stop", "done"}
            /\ stack = <<>> /\ ~call.active
            /\ items \subseteq {None}
            /\ \A w \in Workers : wk[w].pc \in {"get", "exit"}
        /\ Cardinality(exited) + Cardinality({i \in 1..Len(file_queue) : file_queue[i] = None})
             = main.sentinels
        /\ exited # {} => items \subseteq {None}
        /\ main.pc = "done" =>
            /\ main.sentinels = NumWorkers
            /\ exited = Workers
            /\ file_queue = <<>>

C13_Witness ==
    /\ main.pc = "done"
    /\ stats.total_files = 2
    /\ outcomes.transferred = 1 /\ outcomes.failed = 1
    /\ \A w \in Workers : wk[w].pc = "exit"

\* C14: the visited check and mark are made on the slash-terminated form of the
\* URL: every string in processed_urls ends with '/', and a call for a URL
\* whose slash-terminated form was called before ('u' after 'u/', or 'u/'
\* after 'u') fetches no listing.
C14_CanonicalVisitation ==
    /\ \A u \in processed_urls : EndsWithSlash(u)
    /\ \A u \in DOMAIN visits : visits[u].fetches > 0 => with_slash(u) \in processed_urls
    /\ \A u, v \in DOMAIN visits :
        (u # v /\ with_slash(u) = with_slash(v)) => visits[u].fetches + visits[v].fetches <= 1

\* C15: the crawl of a site with finitely many directories returns: no call of
\* process_directory lists a directory whose listing is still being worked
\* through further up the stack, the recursion is never deeper than the number
\* of directories, and it never runs into the recursion limit.
C15_CrawlTerminates ==
    /\ main.pc # "crashed"
    /\ \A i, j \in 1..Len(stack) : i # j => Resolve(stack[i].url) # Resolve(stack[j].url)
    /\ Len(stack) <= 2

\* C16: when download_file has returned failure (a transport error before or
\* while the body is read, or a size mismatch after the write), the local path
\* does not hold a file of zero bytes.
C16_NoPhantomEmptyFile ==
    \A w \in Workers :
        (wk[w].pc = "count" /\ wk[w].res \in {"transport", "mismatch"})
        => ~(fs[PathOf(w)].exists /\ getsize(fs[PathOf(w)]) = 0)

\* C17: when a transfer has failed and left a partial file of N bytes,
\* 0 < N < S, a later run with the same configuration does not skip the task:
\* its decision is to proceed, and the transfer resumes at offset N.
C17_PartialResumed ==
    [][\A w \in Workers :
        (/\ Evaluates(w)
         /\ main.run > 1
         /\ outcomes.failed > 0
         /\ fs[PathOf(w)].exists
         /\ 0 < getsize(fs[PathOf(w)]) /\ getsize(fs[PathOf(w)]) < env.size)
        => /\ wk'[w].pc = "transfer"
           /\ wk'[w].file_size = getsize(fs[PathOf(w)])
           /\ stats'.skipped_files = stats.skipped_files]_vars

\* C18: whatever the site and however the tasks end (success, skip, transport
\* failure, size mismatch, filesystem error), start() eventually passes the
\* barrier, every worker exits, and start() returns (a crawl that has run into
\* the recursion limit aside).
C18_RunTerminates ==
    <>(\/ main.pc = "done" /\ \A w \in Workers : wk[w].pc = "exit"
       \/ main.pc = "crashed")

\* the entity tag the server serves the remote file's current content under
CurrentTag == <<"x">>

\* C19: a task is skipped because the sidecar equals the remote's current
\* entity tag only when the local file is a complete copy of the remote file:
\* a transfer that failed after the probe leaves no stored tag that makes a
\* later run skip a stale or partial file.
C19_RecordSound ==
    [][\A w \in Workers :
        (/\ Evaluates(w)
         /\ cfg.existing_action = "overwrite" /\ cfg.use_checksum
         /\ wk'[w].head.kind = "headers" /\ wk'[w].head.etag = CurrentTag
         /\ wk'[w].res = "skipped")
        => /\ etag[PathOf(w)] = [exists |-> TRUE, text |-> CurrentTag]
           /\ fs[PathOf(w)].exists
           /\ fs[PathOf(w)].data = RemoteData(env.size)]_vars

\* C20: within one run no two tasks name the same local file: no two items of
\* the queue, no item of the queue and task in a worker's hands, and no two
\* workers' tasks have the same local path, so no two workers ever evaluate,
\* back up or write one local file at the same time.
C20_NoConcurrentWriters ==
    LET queued == {i \in 1..Len(file_queue) : file_queue[i] # None}
        busy == {w \in Workers : wk[w].pc \in {"eval", "transfer", "count"}}
    IN  /\ \A i, j \in queued : i # j => Canon(file_queue[i].lp) # Canon(file_queue[j].lp)
        /\ \A i \in queued, w \in busy : Canon(file_queue[i].lp) # PathOf(w)
        /\ \A w, v \in busy : w # v => PathOf(w) # PathOf(v)

====
